---------------------------- MODULE Spec2Model ----------------------------
(***************************************************************************)
(* Model of the two components of the repository:                          *)
(*   - src/binaryTreeFromPreInOrderTraversal.py: Solution.buildTree,       *)
(*     Solution.buildTree_v2 (both recursive, sharing the instance         *)
(*     attribute self.preorder_idx) and Solution.buildTree_v3 (iterative). *)
(*   - src/isValidBst.py: Solution.isValidBST / Solution.helper.           *)
(* The recursive functions are executed frame by frame on an explicit call *)
(* stack, one stack per calling thread; the Solution object (its attribute *)
(* preorder_idx) is shared by the threads.  Sequence positions are 0-based *)
(* as in the Python source; TLA+ sequences are 1-based, hence the "+ 1".   *)
(***************************************************************************)
EXTENDS Integers, Sequences, FiniteSets, TLC

(* Bounds of the model. *)
MaxLen == 3        \* longest preorder / inorder list, most nodes of a tree
MaxKey == 3        \* keys are the Python ints 1..MaxKey
ConcNodes == 2     \* most nodes of a tree built by two interleaved calls

Keys == 1..MaxKey
Threads == {1, 2}

(***************************************************************************)
(* Data model: TreeNode and None.                                          *)
(***************************************************************************)
None == [isNone |-> TRUE]

TreeNode(v, l, r) == [val |-> v, left |-> l, right |-> r]

RECURSIVE Size(_)
Size(T) == IF T = None THEN 0 ELSE 1 + Size(T.left) + Size(T.right)

RECURSIVE Preorder(_)
Preorder(T) == IF T = None THEN <<>>
               ELSE <<T.val>> \o Preorder(T.left) \o Preorder(T.right)

RECURSIVE Inorder(_)
Inorder(T) == IF T = None THEN <<>>
              ELSE Inorder(T.left) \o <<T.val>> \o Inorder(T.right)

Range(s) == {s[i] : i \in 1..Len(s)}

Distinct(s) == \A i, j \in 1..Len(s) : s[i] = s[j] => i = j

(* All binary trees of exactly n nodes with keys in Keys. *)
RECURSIVE TreesOfSize(_)
TreesOfSize(n) ==
    IF n = 0 THEN {None}
    ELSE UNION {{TreeNode(v, l, r) : v \in Keys, l \in TreesOfSize(k),
                                     r \in TreesOfSize(n - 1 - k)}
                : k \in 0..(n - 1)}

AllTrees == UNION {TreesOfSize(n) : n \in 0..MaxLen}

DistinctTrees == {T \in AllTrees : Distinct(Preorder(T))}

AllLists == UNION {[1..n -> Keys] : n \in 0..MaxLen}

(***************************************************************************)
(* float('-inf') / float('inf') and Python's comparison of an int with     *)
(* them.  A bound is a float infinity or an int key.                       *)
(***************************************************************************)
NegInf == [inf |-> -1, val |-> 0]

PosInf == [inf |-> 1, val |-> 0]

Fin(k) == [inf |-> 0, val |-> k]

Lt(a, b) == IF a.inf # b.inf THEN a.inf < b.inf
            ELSE a.inf = 0 /\ a.val < b.val


(***************************************************************************)
(* State.                                                                  *)
(*   preorder_idx  the attribute self.preorder_idx of the one Solution     *)
(*                 object all calls are made on (NoAttr: not yet set)      *)
(*   call[t]       the entry method thread t is in or was last in, and     *)
(*                 its arguments and locals; stale is history only: the    *)
(*                 call found the cursor an earlier call left beyond 0     *)
(*   stack[t]      thread t's call stack of _build_recursive /             *)
(*                 _build_without_map / helper frames, innermost last      *)
(*   status[t]     "idle", "running", "returned" or the exception raised   *)
(*   result[t]     the tree a build method returned                        *)
(*   verdict[t]    the boolean isValidBST returned                         *)
(*   created[t]    number of TreeNode(...) constructions in this call      *)
(***************************************************************************)
VARIABLES preorder_idx, call, stack, status, result, verdict, created

vars == <<preorder_idx, call, stack, status, result, verdict, created>>

NoAttr == -1

NoCall == [method |-> "none", preorder |-> <<>>, inorder |-> <<>>,
           inorder_index_map |-> <<>>, root |-> None, stale |-> FALSE]

Init ==
    /\ preorder_idx = NoAttr
    /\ call = [t \in Threads |-> NoCall]
    /\ stack = [t \in Threads |-> <<>>]
    /\ status = [t \in Threads |-> "idle"]
    /\ result = [t \in Threads |-> None]
    /\ verdict = [t \in Threads |-> FALSE]
    /\ created = [t \in Threads |-> 0]

Top(t) == stack[t][Len(stack[t])]

Front(s) == SubSeq(s, 1, Len(s) - 1)

Raised(t) == status[t] \in {"IndexError", "KeyError", "ValueError", "AttributeError"}

(***************************************************************************)
(* buildTree / buildTree_v2                                                *)
(***************************************************************************)
(* Mutant of IndexMap: positions counted from 1, as enumerate(inorder, 1). *)
IndexMapOneBased(ino) ==
    [v \in Range(ino) |->
        CHOOSE i \in 1..Len(ino) :
            /\ ino[i] = v
            /\ \A j \in 1..Len(ino) : ino[j] = v => j <= i]

(* {val: idx for idx, val in enumerate(inorder)}: the last position wins. *)
IndexMap(ino) ==
    [v \in Range(ino) |->
        CHOOSE i \in 0..(Len(ino) - 1) :
            /\ ino[i + 1] = v
            /\ \A j \in 0..(Len(ino) - 1) : ino[j + 1] = v => j <= i]

(* inorder.index(v, lo, hi): the first position in lo..hi-1 holding v. *)
ListIndexHits(ino, v, lo, hi) ==
    {i \in lo..(hi - 1) : i < Len(ino) /\ ino[i + 1] = v}

ListIndex(ino, v, lo, hi) ==
    CHOOSE i \in ListIndexHits(ino, v, lo, hi) :
        \A j \in ListIndexHits(ino, v, lo, hi) : i <= j

BuildFrame(fn, lb, rb) ==
    [fn |-> fn, pc |-> "enter", left_bound |-> lb, right_bound |-> rb,
     root_val |-> 0, root_inorder_idx |-> 0, left |-> None, right |-> None]

(* Mutant of InitialCursor: the entry method leaves the cursor as it is. *)
InitialCursorKept(old) == old

(* Mutant of InitialCursor: the cursor starts one element in. *)
InitialCursorOne(old) == 1

(* The value self.preorder_idx is given when an entry method starts. *)
InitialCursor(old) == 0

(* self.preorder_idx += 1 *)
NextCursor(idx) == idx + 1

(* Mutant of LeftRange: the root's own position stays in the left range. *)
LeftRangeInclusive(lb, m, rb) == <<lb, m>>

(* The range handed to the recursion that builds root.left. *)
LeftRange(lb, m, rb) == <<lb, m - 1>>

(* Mutant of RightRange: the root's own position stays in the right range. *)
RightRangeFromRoot(lb, m, rb) == <<m, rb>>

(* The range handed to the recursion that builds root.right. *)
RightRange(lb, m, rb) == <<m + 1, rb>>

StartBuild(t, method, fn, pre, ino) ==
    /\ preorder_idx' = InitialCursor(preorder_idx)
    /\ call' = [call EXCEPT ![t] =
                  [method |-> method, preorder |-> pre, inorder |-> ino,
                   inorder_index_map |-> IF method = "buildTree"
                                         THEN IndexMap(ino) ELSE <<>>,
                   root |-> None,
                   stale |-> method = "buildTree" /\ preorder_idx > 0]]
    /\ stack' = [stack EXCEPT ![t] = <<BuildFrame(fn, 0, Len(ino) - 1)>>]
    /\ status' = [status EXCEPT ![t] = "running"]
    /\ result' = [result EXCEPT ![t] = None]
    /\ created' = [created EXCEPT ![t] = 0]
    /\ UNCHANGED verdict

(* A call of buildTree on one of the argument pairs in inputs. *)
buildTree(t, inputs) ==
    /\ status[t] = "idle"
    /\ \E io \in inputs :
          StartBuild(t, "buildTree", "_build_recursive", io[1], io[2])

(* A call of buildTree_v2 on one of the argument pairs in inputs. *)
buildTree_v2(t, inputs) ==
    /\ status[t] = "idle"
    /\ \E io \in inputs :
          StartBuild(t, "buildTree_v2", "_build_without_map", io[1], io[2])

(* The caller's frame p resumes with the value v its callee returned. *)
Resume(stk, v) ==
    LET n == Len(stk)
        p == stk[n]
    IN  IF p.fn = "helper"
        THEN IF p.pc = "left" /\ v
             THEN Append([stk EXCEPT ![n] = [p EXCEPT !.pc = "right"]],
                         [fn |-> "helper", pc |-> "enter", node |-> p.node.right,
                          low |-> Fin(p.node.val), high |-> p.high, value |-> FALSE])
             ELSE [stk EXCEPT ![n] = [p EXCEPT !.pc = "ret", !.value = v]]
        ELSE IF p.pc = "left"
             THEN LET r == RightRange(p.left_bound, p.root_inorder_idx, p.right_bound)
                  IN  Append([stk EXCEPT ![n] = [p EXCEPT !.left = v, !.pc = "right"]],
                             BuildFrame(p.fn, r[1], r[2]))
             ELSE [stk EXCEPT ![n] = [p EXCEPT !.right = v, !.pc = "ret"]]

(* The innermost frame of thread t returns v. *)
ReturnValue(t, v) ==
    IF Len(stack[t]) = 1
    THEN /\ stack' = [stack EXCEPT ![t] = <<>>]
         /\ status' = [status EXCEPT ![t] = "returned"]
         /\ IF Top(t).fn = "helper"
            THEN verdict' = [verdict EXCEPT ![t] = v] /\ UNCHANGED result
            ELSE result' = [result EXCEPT ![t] = v] /\ UNCHANGED verdict
    ELSE /\ stack' = [stack EXCEPT ![t] = Resume(Front(stack[t]), v)]
         /\ UNCHANGED <<status, result, verdict>>

(* The innermost frame of thread t raises e, which nothing catches. *)
Raise(t, e) ==
    /\ stack' = [stack EXCEPT ![t] = <<>>]
    /\ status' = [status EXCEPT ![t] = e]
    /\ UNCHANGED <<result, verdict>>

IsBuildFrame(f) == f.fn \in {"_build_recursive", "_build_without_map"}

(* if left_bound > right_bound: return None *)
BuildBaseCase(t) ==
    /\ status[t] = "running"
    /\ IsBuildFrame(Top(t))
    /\ Top(t).pc = "enter"
    /\ Top(t).left_bound > Top(t).right_bound
    /\ ReturnValue(t, None)
    /\ UNCHANGED <<preorder_idx, call, created>>

(* root_val = preorder[self.preorder_idx] ... root.left = self._build(...) *)
BuildTakeRoot(t) ==
    /\ status[t] = "running"
    /\ IsBuildFrame(Top(t))
    /\ Top(t).pc = "enter"
    /\ Top(t).left_bound <= Top(t).right_bound
    /\ LET f == Top(t)
           pre == call[t].preorder
           ino == call[t].inorder
           imap == call[t].inorder_index_map
       IN  IF preorder_idx = NoAttr
           THEN /\ Raise(t, "AttributeError")
                /\ UNCHANGED <<preorder_idx, created>>
           ELSE IF preorder_idx >= Len(pre)
           THEN /\ Raise(t, "IndexError")
                /\ UNCHANGED <<preorder_idx, created>>
           ELSE LET root_val == pre[preorder_idx + 1]
                    found == IF f.fn = "_build_recursive"
                             THEN root_val \in DOMAIN imap
                             ELSE ListIndexHits(ino, root_val, f.left_bound,
                                                f.right_bound + 1) # {}
                IN  /\ preorder_idx' = NextCursor(preorder_idx)
                    /\ created' = [created EXCEPT ![t] = @ + 1]
                    /\ IF ~found
                       THEN Raise(t, IF f.fn = "_build_recursive"
                                     THEN "KeyError" ELSE "ValueError")
                       ELSE LET m == IF f.fn = "_build_recursive"
                                     THEN imap[root_val]
                                     ELSE ListIndex(ino, root_val, f.left_bound,
                                                    f.right_bound + 1)
                                l == LeftRange(f.left_bound, m, f.right_bound)
                            IN  /\ stack' = [stack EXCEPT ![t] =
                                     Append([@ EXCEPT ![Len(@)] =
                                               [f EXCEPT !.pc = "left",
                                                         !.root_val = root_val,
                                                         !.root_inorder_idx = m]],
                                            BuildFrame(f.fn, l[1], l[2]))]
                                /\ UNCHANGED <<status, result, verdict>>
    /\ UNCHANGED call

(* return root *)
BuildReturnRoot(t) ==
    /\ status[t] = "running"
    /\ IsBuildFrame(Top(t))
    /\ Top(t).pc = "ret"
    /\ ReturnValue(t, TreeNode(Top(t).root_val, Top(t).left, Top(t).right))
    /\ UNCHANGED <<preorder_idx, call, created>>

(***************************************************************************)
(* The recursion as a function of its arguments and the cursor it starts   *)
(* from: what one call computes when nothing else touches the cursor.      *)
(***************************************************************************)
RECURSIVE BuildRec(_, _, _, _, _, _, _)
BuildRec(fn, pre, ino, imap, lb, rb, idx) ==
    IF lb > rb
    THEN [status |-> "returned", tree |-> None, idx |-> idx]
    ELSE IF idx >= Len(pre)
    THEN [status |-> "IndexError", tree |-> None, idx |-> idx]
    ELSE LET root_val == pre[idx + 1]
             found == IF fn = "_build_recursive"
                      THEN root_val \in DOMAIN imap
                      ELSE ListIndexHits(ino, root_val, lb, rb + 1) # {}
         IN  IF ~found
             THEN [status |-> IF fn = "_build_recursive"
                              THEN "KeyError" ELSE "ValueError",
                   tree |-> None, idx |-> NextCursor(idx)]
             ELSE LET m == IF fn = "_build_recursive" THEN imap[root_val]
                           ELSE ListIndex(ino, root_val, lb, rb + 1)
                      l == LeftRange(lb, m, rb)
                      r == RightRange(lb, m, rb)
                      L == BuildRec(fn, pre, ino, imap, l[1], l[2], NextCursor(idx))
                      R == BuildRec(fn, pre, ino, imap, r[1], r[2], L.idx)
                  IN  IF L.status # "returned" THEN L
                      ELSE IF R.status # "returned" THEN R
                      ELSE [status |-> "returned",
                            tree |-> TreeNode(root_val, L.tree, R.tree),
                            idx |-> R.idx]

(* buildTree / buildTree_v2 called on a Solution object of its own. *)
FreshBuild(method, pre, ino) ==
    IF method = "buildTree"
    THEN BuildRec("_build_recursive", pre, ino, IndexMap(ino), 0, Len(ino) - 1, 0)
    ELSE BuildRec("_build_without_map", pre, ino, <<>>, 0, Len(ino) - 1, 0)

(***************************************************************************)
(* buildTree_v3: the iterative construction.  It keeps no state on the     *)
(* Solution object and has no recursion, so it is one step.  Nodes are     *)
(* mutated after creation (parent.right = node, stack[-1].left = node), so *)
(* they live in a heap: heap[k] is the k-th node created, its left / right *)
(* the heap position of the child, 0 for None.                             *)
(***************************************************************************)
(* Mutant of V3PopWhile: "if" for "while", at most one pop. *)
V3PopOnce(heap, ino, stk, inorder_idx, parent) ==
    IF stk = <<>>
    THEN [stk |-> stk, inorder_idx |-> inorder_idx, parent |-> parent, err |-> FALSE]
    ELSE IF inorder_idx >= Len(ino)
    THEN [stk |-> stk, inorder_idx |-> inorder_idx, parent |-> parent, err |-> TRUE]
    ELSE IF heap[stk[Len(stk)]].val = ino[inorder_idx + 1]
    THEN [stk |-> Front(stk), inorder_idx |-> inorder_idx + 1,
          parent |-> stk[Len(stk)], err |-> FALSE]
    ELSE [stk |-> stk, inorder_idx |-> inorder_idx, parent |-> parent, err |-> FALSE]

(* while stack and stack[-1].val == inorder[inorder_idx]: pop *)
RECURSIVE V3PopWhile(_, _, _, _, _)
V3PopWhile(heap, ino, stk, inorder_idx, parent) ==
    IF stk = <<>>
    THEN [stk |-> stk, inorder_idx |-> inorder_idx, parent |-> parent, err |-> FALSE]
    ELSE IF inorder_idx >= Len(ino)
    THEN [stk |-> stk, inorder_idx |-> inorder_idx, parent |-> parent, err |-> TRUE]
    ELSE IF heap[stk[Len(stk)]].val = ino[inorder_idx + 1]
    THEN V3PopWhile(heap, ino, Front(stk), inorder_idx + 1, stk[Len(stk)])
    ELSE [stk |-> stk, inorder_idx |-> inorder_idx, parent |-> parent, err |-> FALSE]

(* for i in range(1, len(preorder)): ... *)
RECURSIVE V3Loop(_, _, _, _, _, _)
V3Loop(pre, ino, i, heap, stk, inorder_idx) ==
    IF i >= Len(pre)
    THEN [status |-> "returned", heap |-> heap]
    ELSE LET node == Len(heap) + 1
             h1 == Append(heap, [val |-> pre[i + 1], left |-> 0, right |-> 0])
             w == V3PopWhile(h1, ino, stk, inorder_idx, 0)
         IN  IF w.err
             THEN [status |-> "IndexError", heap |-> h1]
             ELSE LET h2 == IF w.parent # 0
                            THEN [h1 EXCEPT ![w.parent].right = node]
                            ELSE [h1 EXCEPT ![stk[Len(stk)]].left = node]
                  IN  V3Loop(pre, ino, i + 1, h2, Append(w.stk, node), w.inorder_idx)

RECURSIVE V3Tree(_, _)
V3Tree(heap, k) ==
    IF k = 0 THEN None
    ELSE TreeNode(heap[k].val, V3Tree(heap, heap[k].left), V3Tree(heap, heap[k].right))

BuildTreeV3(pre, ino) ==
    IF pre = <<>>
    THEN [status |-> "returned", result |-> None, created |-> 0]
    ELSE LET r == V3Loop(pre, ino, 1, <<[val |-> pre[1], left |-> 0, right |-> 0]>>,
                         <<1>>, 0)
         IN  [status |-> r.status,
              result |-> IF r.status = "returned" THEN V3Tree(r.heap, 1) ELSE None,
              created |-> Len(r.heap)]

buildTree_v3(t, inputs) ==
    /\ status[t] = "idle"
    /\ \E io \in inputs :
          LET r == BuildTreeV3(io[1], io[2])
          IN  /\ call' = [call EXCEPT ![t] =
                    [method |-> "buildTree_v3", preorder |-> io[1],
                     inorder |-> io[2], inorder_index_map |-> <<>>,
                     root |-> None, stale |-> FALSE]]
              /\ status' = [status EXCEPT ![t] = r.status]
              /\ result' = [result EXCEPT ![t] = r.result]
              /\ created' = [created EXCEPT ![t] = r.created]
    /\ stack' = [stack EXCEPT ![t] = <<>>]
    /\ UNCHANGED <<preorder_idx, verdict>>

(***************************************************************************)
(* isValidBST / helper                                                     *)
(***************************************************************************)
(* helper's default arguments low=float('-inf'), high=float('inf'). *)
DefaultLow == NegInf

(* Mutant of DefaultHigh: the largest key as the sentinel. *)
DefaultHighMaxKey == Fin(MaxKey)

DefaultHigh == PosInf

HelperFrame(node, low, high) ==
    [fn |-> "helper", pc |-> "enter", node |-> node, low |-> low, high |-> high,
     value |-> FALSE]

(* Mutant of InBounds: low <= node.val <= high. *)
InBoundsNonStrict(low, val, high) == ~Lt(Fin(val), low) /\ ~Lt(high, Fin(val))

(* low < node.val < high *)
InBounds(low, val, high) == Lt(low, Fin(val)) /\ Lt(Fin(val), high)

isValidBST(t, trees) ==
    /\ status[t] = "idle"
    /\ \E tree \in trees :
          /\ call' = [call EXCEPT ![t] =
                [method |-> "isValidBST", preorder |-> <<>>, inorder |-> <<>>,
                 inorder_index_map |-> <<>>, root |-> tree, stale |-> FALSE]]
          /\ stack' = [stack EXCEPT ![t] =
                <<HelperFrame(tree, DefaultLow, DefaultHigh)>>]
    /\ status' = [status EXCEPT ![t] = "running"]
    /\ created' = [created EXCEPT ![t] = 0]
    /\ UNCHANGED <<preorder_idx, result, verdict>>

(* if not node: return True *)
HelperEmpty(t) ==
    /\ status[t] = "running"
    /\ Top(t).fn = "helper"
    /\ Top(t).pc = "enter"
    /\ Top(t).node = None
    /\ ReturnValue(t, TRUE)
    /\ UNCHANGED <<preorder_idx, call, created>>

(* if not (low < node.val < high): return False *)
HelperReject(t) ==
    /\ status[t] = "running"
    /\ Top(t).fn = "helper"
    /\ Top(t).pc = "enter"
    /\ Top(t).node # None
    /\ ~InBounds(Top(t).low, Top(t).node.val, Top(t).high)
    /\ ReturnValue(t, FALSE)
    /\ UNCHANGED <<preorder_idx, call, created>>

(* self.helper(node.left, low, node.val) and ... *)
HelperDescend(t) ==
    /\ status[t] = "running"
    /\ Top(t).fn = "helper"
    /\ Top(t).pc = "enter"
    /\ Top(t).node # None
    /\ InBounds(Top(t).low, Top(t).node.val, Top(t).high)
    /\ stack' = [stack EXCEPT ![t] =
                   Append([@ EXCEPT ![Len(@)].pc = "left"],
                          HelperFrame(Top(t).node.left, Top(t).low,
                                      Fin(Top(t).node.val)))]
    /\ UNCHANGED <<preorder_idx, call, status, result, verdict, created>>

(* return (left verdict and right verdict) *)
HelperReturn(t) ==
    /\ status[t] = "running"
    /\ Top(t).fn = "helper"
    /\ Top(t).pc = "ret"
    /\ ReturnValue(t, Top(t).value)
    /\ UNCHANGED <<preorder_idx, call, created>>

(***************************************************************************)
(* The caller has taken the return value (or the exception) of its call    *)
(* and is free to make the next one.  The Solution object keeps its        *)
(* attribute.                                                              *)
(***************************************************************************)
Release(t) ==
    /\ status[t] \notin {"idle", "running"}
    /\ call' = [call EXCEPT ![t] = NoCall]
    /\ status' = [status EXCEPT ![t] = "idle"]
    /\ result' = [result EXCEPT ![t] = None]
    /\ verdict' = [verdict EXCEPT ![t] = FALSE]
    /\ created' = [created EXCEPT ![t] = 0]
    /\ UNCHANGED <<preorder_idx, stack>>

(***************************************************************************)
(* Specifications.                                                         *)
(***************************************************************************)
(* One step of a call in progress. *)
Step(t) ==
    \/ BuildBaseCase(t)
    \/ BuildTakeRoot(t)
    \/ BuildReturnRoot(t)
    \/ HelperEmpty(t)
    \/ HelperReject(t)
    \/ HelperDescend(t)
    \/ HelperReturn(t)

(* The traversal pairs of the trees with pairwise distinct keys. *)
WellFormedInputs == {<<Preorder(T), Inorder(T)>> : T \in DistinctTrees}

AnyInputs == AllLists \X AllLists

(* root=5, left=1, right=(4 with left=3): locally ordered, not a BST. *)
NotBstExample ==
    TreeNode(5, TreeNode(1, None, None),
                TreeNode(4, TreeNode(3, None, None), None))

BstInputs == AllTrees \cup {NotBstExample}

Calls(t, inputs, trees) ==
    \/ buildTree(t, inputs)
    \/ buildTree_v2(t, inputs)
    \/ buildTree_v3(t, inputs)
    \/ isValidBST(t, trees)
    \/ Release(t)

(* One caller, one call after the other, on any arguments. *)
Next == Calls(1, AnyInputs, BstInputs) \/ Step(1)

Spec == Init /\ [][Next]_vars

(* One caller, arguments that meet the preconditions; a call in progress   *)
(* keeps running (synchronous, nothing to wait for).                       *)
NextWF == Calls(1, WellFormedInputs, BstInputs) \/ Step(1)

FairSpec == Init /\ [][NextWF]_vars /\ WF_vars(Step(1))

(* Two threads, each calling buildTree once on the same Solution object;   *)
(* their steps interleave in any order.                                    *)
ConcInputs == {io \in WellFormedInputs :
                   Len(io[1]) <= ConcNodes /\ Range(io[1]) \subseteq 1..ConcNodes}

NextConc ==
    \E t \in Threads :
        \/ buildTree(t, ConcInputs)
        \/ BuildBaseCase(t)
        \/ BuildTakeRoot(t)
        \/ BuildReturnRoot(t)

SpecConc == Init /\ [][NextConc]_vars

(***************************************************************************)
(* Vocabulary of the properties.                                           *)
(***************************************************************************)
Returned(t) == status[t] = "returned"

Finished(t) == status[t] \notin {"idle", "running"}

Pre(t) == call[t].preorder

Ino(t) == call[t].inorder

(* pre and ino are the two traversals of one tree with distinct keys. *)
WellFormed(pre, ino) == <<pre, ino>> \in WellFormedInputs

(* Lengths differ, a value occurs twice, or the value sets differ. *)
Violates(pre, ino) ==
    \/ Len(pre) # Len(ino)
    \/ ~Distinct(pre)
    \/ ~Distinct(ino)
    \/ Range(pre) # Range(ino)

KeysOf(T) == Range(Preorder(T))

(* The BST ordering, over whole subtrees. *)
RECURSIVE IsBst(_)
IsBst(T) ==
    \/ T = None
    \/ /\ \A k \in KeysOf(T.left) : k < T.val
       /\ \A k \in KeysOf(T.right) : k > T.val
       /\ IsBst(T.left)
       /\ IsBst(T.right)

(***************************************************************************)
(* C1  Round trip: on the two traversals of a tree with distinct keys,     *)
(* buildTree raises nothing and returns that very tree: the result's       *)
(* preorder and inorder are the arguments, and every tree with those       *)
(* traversals is the result (None for the empty pair).                     *)
(***************************************************************************)
C1_RoundTrip ==
    \A t \in Threads :
        (call[t].method = "buildTree" /\ WellFormed(Pre(t), Ino(t))) =>
            /\ ~Raised(t)
            /\ Returned(t) =>
                 /\ Preorder(result[t]) = Pre(t)
                 /\ Inorder(result[t]) = Ino(t)
                 /\ \A T \in DistinctTrees :
                        (Preorder(T) = Pre(t) /\ Inorder(T) = Ino(t)) => result[t] = T

C1_Witness ==
    \E t \in Threads :
        /\ call[t].method = "buildTree"
        /\ Returned(t)
        /\ WellFormed(Pre(t), Ino(t))
        /\ Size(result[t]) = MaxLen
        /\ result[t].left # None
        /\ result[t].right # None

(***************************************************************************)
(* C2  isValidBST returns TRUE exactly for the trees in which every node's *)
(* key is above all keys of its left subtree and below all keys of its     *)
(* right subtree; duplicates allowed in the input.                         *)
(***************************************************************************)
C2_BstIff ==
    \A t \in Threads :
        (call[t].method = "isValidBST" /\ Returned(t)) =>
            verdict[t] = IsBst(call[t].root)

(* The spec's negative example has been judged, and judged FALSE. *)
C2_Witness ==
    \E t \in Threads :
        /\ call[t].method = "isValidBST"
        /\ Returned(t)
        /\ call[t].root = NotBstExample
        /\ verdict[t] = FALSE

(***************************************************************************)
(* C3  (the claim as stated) buildTree never returns normally on arguments *)
(* that violate the precondition: lengths differ, a value occurs twice, or *)
(* the value sets differ.                                                  *)
(***************************************************************************)
C3_BadInputRaises ==
    \A t \in Threads :
        (call[t].method = "buildTree" /\ Violates(Pre(t), Ino(t))) => ~Returned(t)

(***************************************************************************)
(* C4  (the claim as stated) when two buildTree calls on the same Solution *)
(* object interleave, each on well-formed arguments of its own, each       *)
(* raises nothing and returns the tree of its own arguments.               *)
(***************************************************************************)
C4_CallsIsolated ==
    \A t \in Threads :
        (call[t].method = "buildTree" /\ WellFormed(Pre(t), Ino(t))) =>
            /\ ~Raised(t)
            /\ Returned(t) => (Preorder(result[t]) = Pre(t) /\ Inorder(result[t]) = Ino(t))

(***************************************************************************)
(* C5  Totality: on well-formed arguments no call ever raises, every call  *)
(* of buildTree (and buildTree_v2) in progress returns, and every call of  *)
(* isValidBST in progress returns, with a boolean.                         *)
(***************************************************************************)
C5_Total ==
    /\ [](\A t \in Threads : ~Raised(t))
    /\ [](\A t \in Threads : verdict[t] \in BOOLEAN)
    /\ \A t \in Threads : (status[t] = "running") ~> Returned(t)

C5_Witness ==
    \E t \in Threads :
        /\ call[t].method = "buildTree"
        /\ Returned(t)
        /\ Size(result[t]) = MaxLen
        /\ result[t].right = None

(***************************************************************************)
(* C6  Boundary keys: a valid BST holding both the smallest and the        *)
(* largest key is judged TRUE, and no key fails the initial bounds the     *)
(* recursion starts with.                                                  *)
(***************************************************************************)
C6_BoundaryKeys ==
    /\ \A k \in Keys : InBounds(DefaultLow, k, DefaultHigh)
    /\ \A t \in Threads :
          ( /\ call[t].method = "isValidBST"
            /\ Returned(t)
            /\ IsBst(call[t].root)
            /\ {1, MaxKey} \subseteq KeysOf(call[t].root) ) => verdict[t] = TRUE

C6_Witness ==
    \E t \in Threads :
        /\ call[t].method = "isValidBST"
        /\ Returned(t)
        /\ IsBst(call[t].root)
        /\ {1, MaxKey} \subseteq KeysOf(call[t].root)
        /\ Size(call[t].root) = MaxLen
        /\ verdict[t] = TRUE

(***************************************************************************)
(* C7  The cursor counts the nodes: a buildTree call sets it to 0, it      *)
(* equals the number of nodes created so far in the call, an empty range   *)
(* creates no node and leaves it alone, and on return for well-formed      *)
(* arguments it is the size of the result, len(preorder) and len(inorder). *)
(***************************************************************************)
C7_Counts ==
    \A t \in Threads :
        (call[t].method = "buildTree" /\ status[t] # "idle") =>
            /\ preorder_idx = created[t]
            /\ (Returned(t) /\ WellFormed(Pre(t), Ino(t))) =>
                 /\ preorder_idx = Size(result[t])
                 /\ preorder_idx = Len(Pre(t))
                 /\ preorder_idx = Len(Ino(t))

C7_Steps ==
    \A t \in Threads :
        /\ (status[t] = "idle" /\ status'[t] = "running"
                /\ call'[t].method = "buildTree")
             => (preorder_idx' = 0 /\ created'[t] = 0)
        /\ (status[t] = "running" /\ call[t].method = "buildTree"
                /\ Top(t).pc = "enter"
                /\ Top(t).left_bound > Top(t).right_bound)
             => (preorder_idx' = preorder_idx /\ created'[t] = created[t])

C7_Cursor == []C7_Counts /\ [][C7_Steps]_vars

C7_Witness ==
    \E t \in Threads :
        /\ call[t].method = "buildTree"
        /\ Returned(t)
        /\ WellFormed(Pre(t), Ino(t))
        /\ preorder_idx = MaxLen
        /\ created[t] = MaxLen

(***************************************************************************)
(* C8  On well-formed arguments, whenever _build_recursive is entered with *)
(* a non-empty range the cursor is inside preorder and the inorder         *)
(* position of preorder[cursor] lies in the range; every callee's range    *)
(* lies inside its caller's; and while a right recursion runs the left     *)
(* subtree is already complete: it holds exactly the inorder slice left of *)
(* the root.                                                               *)
(***************************************************************************)
C8_NextIsRoot ==
    \A t \in Threads :
        ( /\ call[t].method = "buildTree"
          /\ status[t] = "running"
          /\ WellFormed(Pre(t), Ino(t)) ) =>
            /\ (Top(t).pc = "enter" /\ Top(t).left_bound <= Top(t).right_bound) =>
                 /\ preorder_idx < Len(Pre(t))
                 /\ Pre(t)[preorder_idx + 1] \in DOMAIN call[t].inorder_index_map
                 /\ Top(t).left_bound
                       <= call[t].inorder_index_map[Pre(t)[preorder_idx + 1]]
                 /\ call[t].inorder_index_map[Pre(t)[preorder_idx + 1]]
                       <= Top(t).right_bound
            /\ \A i \in 2..Len(stack[t]) :
                 /\ stack[t][i - 1].left_bound <= stack[t][i].left_bound
                 /\ stack[t][i].right_bound <= stack[t][i - 1].right_bound
                 /\ stack[t][i - 1].pc \in {"left", "right"}
            /\ \A i \in 1..Len(stack[t]) :
                 stack[t][i].pc \in {"right", "ret"} =>
                    Inorder(stack[t][i].left) =
                        SubSeq(Ino(t), stack[t][i].left_bound + 1,
                               stack[t][i].root_inorder_idx)

C8_Witness ==
    \E t \in Threads :
        /\ call[t].method = "buildTree"
        /\ status[t] = "running"
        /\ WellFormed(Pre(t), Ino(t))
        /\ Len(stack[t]) >= 2
        /\ Top(t).pc = "enter"
        /\ Top(t).left_bound <= Top(t).right_bound
        /\ stack[t][1].pc = "right"
        /\ stack[t][1].left # None

(***************************************************************************)
(* C9  On well-formed arguments buildTree and buildTree_v2 each return the *)
(* tree buildTree_v3 returns, and buildTree_v3 raises nothing.             *)
(***************************************************************************)
C9_Agree ==
    \A t \in Threads :
        WellFormed(Pre(t), Ino(t)) =>
            /\ (call[t].method = "buildTree_v3" /\ status[t] # "idle") => Returned(t)
            /\ (call[t].method \in {"buildTree", "buildTree_v2"} /\ Finished(t)) =>
                 /\ Returned(t)
                 /\ BuildTreeV3(Pre(t), Ino(t)).status = "returned"
                 /\ result[t] = BuildTreeV3(Pre(t), Ino(t)).result

C9_Witness ==
    \E t \in Threads :
        /\ call[t].method = "buildTree_v2"
        /\ Returned(t)
        /\ WellFormed(Pre(t), Ino(t))
        /\ Size(result[t]) = MaxLen
        /\ result[t].left # None
        /\ result[t].left.right # None

(***************************************************************************)
(* C10  Sequential reuse: whatever calls were made on the Solution object  *)
(* before, completed or aborted by an exception, a finished buildTree (or  *)
(* buildTree_v2) call has the outcome the same call has on an object of    *)
(* its own: the same return value or the same exception, and the same      *)
(* final cursor.                                                           *)
(***************************************************************************)
C10_Reuse ==
    \A t \in Threads :
        (call[t].method \in {"buildTree", "buildTree_v2"} /\ Finished(t)) =>
            LET f == FreshBuild(call[t].method, Pre(t), Ino(t))
            IN  /\ status[t] = f.status
                /\ Returned(t) => result[t] = f.tree
                /\ preorder_idx = f.idx

(* A buildTree call returned a tree although it found the cursor beyond 0. *)
C10_Witness ==
    \E t \in Threads :
        /\ call[t].method = "buildTree"
        /\ call[t].stale
        /\ Returned(t)
        /\ result[t] # None

=============================================================================
